---- MODULE Spec2Model ----
(***************************************************************************)
(* Model of pkg/providers/amifamily/ami.go: the AMI provider that resolves *)
(* the images of a node class (Get), through the family defaults           *)
(* (getDefaultAMIs) or through AMI selector terms (getAMIs), with the      *)
(* image cache and the kubernetes version cache.                           *)
(*                                                                         *)
(* Go slices are references: the model keeps a heap of backing arrays      *)
(* (arrays) and the cache and the callers hold array ids, so that a value  *)
(* stored by SetDefault and the value a caller sorts can be one array.     *)
(* Logging, and the ChangeMonitor that only gates log lines, are left out. *)
(***************************************************************************)
EXTENDS Integers, Sequences, FiniteSets, TLC

\* ------------------------------------------------------------- bounds
\* Get calls started in one behaviour.
MaxCalls == 3
\* Longest list of AMI selector terms of a node class.
MaxTerms == 2
\* Longest AMIs slice, and longest list of instance types, that
\* MapToInstanceTypes is called with.
MaxAMIs == 2
MaxInstanceTypes == 2

\* ------------------------------------------------------------- helpers
Range(s) == {s[i] : i \in 1..Len(s)}

\* Sequences over S without repetition, of length 1..n.
DistinctSeqs(S, n) ==
  {s \in UNION {[1..k -> S] : k \in 1..n} : \A i, j \in 1..Len(s) : i # j => s[i] # s[j]}

\* All orderings of a finite set.
Orderings(S) == {s \in [1..Cardinality(S) -> S] : Range(s) = S}

\* ------------------------------------------------------------- strings
\* Go compares strings bytewise; the names of the model, in that order.
NameOrder == <<"", "ami-a", "ami-b">>

StrRank(s) == CHOOSE i \in 1..Len(NameOrder) : NameOrder[i] = s

StrLess(a, b) == StrRank(a) < StrRank(b)

\* time.Parse(time.RFC3339, s): the instant as (seconds, nanoseconds); an
\* empty or malformed string gives the zero time (the error is dropped).
\* Seconds are counted from the zero time in days of the model's calendar.
Dates == {"", "2023-01-01T00:00:00Z", "2023-01-01T00:00:00.5Z", "2023-01-02T00:00:00Z"}

ParseTime(s) ==
  CASE s = "2023-01-01T00:00:00Z"   -> [sec |-> 1, nsec |-> 0]
    [] s = "2023-01-01T00:00:00.5Z" -> [sec |-> 1, nsec |-> 5]
    [] s = "2023-01-02T00:00:00Z"   -> [sec |-> 2, nsec |-> 0]
    [] OTHER                        -> [sec |-> 0, nsec |-> 0]

\* Time.Unix(): whole seconds, the nanoseconds dropped.
Unix(t) == t.sec

\* ------------------------------------------------------------- requirements
LabelArchStable == "kubernetes.io/arch"

\* v1alpha5.WellKnownLabels (the keys the model's tags can carry).
WellKnownLabels == {LabelArchStable, "topology.kubernetes.io/zone"}

\* v1beta1.WellKnownArchitectures.
WellKnownArchitectures == {"amd64", "arm64"}

\* v1alpha1.AWSToKubeArchitectures: a table lookup, the value itself when absent.
AWSToKubeArchitecture(a) == IF a = "x86_64" THEN "amd64" ELSE a

\* scheduling.Requirements: a set of [Key, Values], one entry per key.
\* Add on a key already present intersects the two value sets.
ReqAdd(reqs, key, values) ==
  IF \E r \in reqs : r.Key = key
  THEN {IF r.Key = key THEN [Key |-> key, Values |-> r.Values \cap values] ELSE r : r \in reqs}
  ELSE reqs \cup {[Key |-> key, Values |-> values]}

RECURSIVE ReqAddTags(_, _)
ReqAddTags(reqs, tags) ==
  IF tags = {} THEN reqs
  ELSE LET t == CHOOSE x \in tags : TRUE
       IN ReqAddTags(IF t[1] \in WellKnownLabels THEN ReqAdd(reqs, t[1], {t[2]}) ELSE reqs,
                     tags \ {t})

getRequirementsFromImage(img) ==
  ReqAdd(ReqAddTags({}, img.Tags), LabelArchStable, {AWSToKubeArchitecture(img.Architecture)})

\* reqs.Get(key).Any(): a value of the requirement, "" when it has none.
ReqAny(reqs, key) ==
  IF \E r \in reqs : r.Key = key /\ r.Values # {}
  THEN LET r == CHOOSE x \in reqs : x.Key = key IN CHOOSE v \in r.Values : TRUE
  ELSE ""

\* hashstructure.Hash(reqs.NodeSelectorRequirements(), SlicesAsSets): the
\* hash reads the requirements as an unordered set of (key, operator, values),
\* values unordered; distinct sets are taken to hash apart.
ReqsHash(reqs) ==
  {[Key |-> r.Key, Operator |-> IF r.Values = {} THEN "DoesNotExist" ELSE "In", Values |-> r.Values]
     : r \in reqs}

\* ------------------------------------------------------------- ordering of AMIs
\* The less function of AMIs.Sort, on two elements.
SortLess(x, y) ==
  IF (x.CreationDate # "" \/ y.CreationDate # "")
     /\ Unix(ParseTime(x.CreationDate)) # Unix(ParseTime(y.CreationDate))
  THEN Unix(ParseTime(x.CreationDate)) >= Unix(ParseTime(y.CreationDate))
  ELSE ~StrLess(x.Name, y.Name)

\* sort.Slice on a short slice is an insertion sort: element i moves down
\* while it is less than the element before it.
RECURSIVE InsertDown(_, _)
InsertDown(a, j) ==
  IF j > 1 /\ SortLess(a[j], a[j - 1])
  THEN InsertDown([a EXCEPT ![j] = a[j - 1], ![j - 1] = a[j]], j - 1)
  ELSE a

RECURSIVE InsertionSort(_, _)
InsertionSort(a, i) == IF i > Len(a) THEN a ELSE InsertionSort(InsertDown(a, i), i + 1)

Sort(a) == InsertionSort(a, 2)

\* ------------------------------------------------------------- selector terms
NoTerm == [ID |-> "", Name |-> "", Owner |-> "", Tags |-> {}]

\* functional.SplitCommaSeparatedString on the tag values of the model.
SplitCommaSeparatedString(v) == IF v = "x,y" THEN <<"x", "y">> ELSE <<v>>

\* fmt.Sprintf("tag:%s", k) on the tag keys of the model.
TagFilterName(k) == IF k = "team" THEN "tag:team" ELSE "tag:other"

\* The filters of a term's tags (Go ranges over the map in no fixed order;
\* the order of the filters is read by nothing).
RECURSIVE TagFilters(_)
TagFilters(tags) ==
  IF tags = {} THEN <<>>
  ELSE LET t == CHOOSE x \in tags : TRUE
       IN <<IF t[2] = "*"
            THEN [Name |-> "tag-key", Values |-> <<t[1]>>]
            ELSE [Name |-> TagFilterName(t[1]), Values |-> SplitCommaSeparatedString(t[2])]>>
          \o TagFilters(tags \ {t})

\* The FiltersAndOwners of one attribute term.
TermGroup(term) ==
  [Owners  |-> IF term.Owner # "" THEN <<term.Owner>> ELSE <<"self", "amazon">>,
   Filters |-> (IF term.Name # "" THEN <<[Name |-> "name", Values |-> <<term.Name>>]>> ELSE <<>>)
               \o TagFilters(term.Tags)]

RECURSIVE AttributeGroups(_)
AttributeGroups(terms) ==
  IF terms = <<>> THEN <<>>
  ELSE (IF Head(terms).ID # "" THEN <<>> ELSE <<TermGroup(Head(terms))>>)
       \o AttributeGroups(Tail(terms))

RECURSIVE IdValues(_)
IdValues(terms) ==
  IF terms = <<>> THEN <<>>
  ELSE (IF Head(terms).ID # "" THEN <<Head(terms).ID>> ELSE <<>>) \o IdValues(Tail(terms))

\* GetFilterAndOwnerSets with the FiltersAndOwners of the ids put first.
GetFilterAndOwnerSetsIdsFirst(terms) ==
  (IF Len(IdValues(terms)) > 0
   THEN <<[Filters |-> <<[Name |-> "image-id", Values |-> IdValues(terms)]>>, Owners |-> <<>>]>>
   ELSE <<>>)
  \o AttributeGroups(terms)

GetFilterAndOwnerSets(terms) ==
  AttributeGroups(terms)
  \o (IF Len(IdValues(terms)) > 0
      THEN <<[Filters |-> <<[Name |-> "image-id", Values |-> IdValues(terms)]>>, Owners |-> <<>>]>>
      ELSE <<>>)

\* hashstructure.Hash(filterAndOwnerSets, SlicesAsSets): every slice (the
\* groups, the filters, the values, the owners) is read as an unordered set.
HashFilter(f) == [Name |-> f.Name, Values |-> Range(f.Values)]

HashGroup(g) == [Filters |-> {HashFilter(f) : f \in Range(g.Filters)}, Owners |-> Range(g.Owners)]

\* HashGroups with the list of groups read in order.
HashGroupsInOrder(groups) == {<<i, HashGroup(groups[i])>> : i \in 1..Len(groups)}

HashGroups(groups) == {HashGroup(g) : g \in Range(groups)}

\* Cache keys: lo.FromPtr(AMIFamily) on the default path, fmt.Sprint(hash) on
\* the custom path (a decimal number, never a family name).
FamilyKey(family) == [family |-> family, hash |-> {}]

HashKey(groups) == [family |-> "#", hash |-> HashGroups(groups)]

\* ------------------------------------------------------------- the image catalog
\* The images of the catalog (EC2), in the order DescribeImages lists them,
\* and the account that owns each.
ImageIds == <<"ami-1", "ami-2">>

OwnerOf(id) == IF id = "ami-1" THEN "self" ELSE "amazon"

TagKeyOfFilter(name) == IF name = "tag:team" THEN "team" ELSE "other"

\* Whether an image passes one filter of a DescribeImages call.
MatchesFilter(img, f) ==
  CASE f.Name = "image-id" -> img.ImageId \in Range(f.Values)
    [] f.Name = "name"     -> img.Name \in Range(f.Values)
    [] f.Name = "tag-key"  -> \E t \in img.Tags : t[1] \in Range(f.Values)
    [] OTHER               -> \E t \in img.Tags : t[1] = TagKeyOfFilter(f.Name) /\ t[2] \in Range(f.Values)

\* The images a DescribeImages call with these filters and owners returns: nil
\* filters and nil owners restrict nothing.
RECURSIVE DescribeFrom(_, _, _, _)
DescribeFrom(cat, filters, owners, i) ==
  IF i > Len(ImageIds) THEN <<>>
  ELSE LET img == cat[ImageIds[i]]
       IN (IF (\A f \in Range(filters) : MatchesFilter(img, f))
              /\ (owners = <<>> \/ OwnerOf(img.ImageId) \in Range(owners))
           THEN <<img>> ELSE <<>>)
          \o DescribeFrom(cat, filters, owners, i + 1)

DescribeImages(cat, filters, owners) == DescribeFrom(cat, filters, owners, 1)

\* ------------------------------------------------------------- getAMIs
\* CallbackImage with the map keyed by the image id instead of the hash of
\* the requirements.
CallbackImageById(images, img) ==
  LET reqs == getRequirementsFromImage(img)
      ami  == [Name |-> img.Name, AmiID |-> img.ImageId,
               CreationDate |-> img.CreationDate, Requirements |-> reqs]
      key  == {[Key |-> img.ImageId, Operator |-> "In", Values |-> {}]}
  IN IF ReqAny(reqs, LabelArchStable) \notin WellKnownArchitectures THEN images
     ELSE [h \in DOMAIN images \cup {key} |-> IF h = key THEN ami ELSE images[h]]

\* CallbackImage without the test of the architecture.
CallbackImageAnyArch(images, img) ==
  LET reqs     == getRequirementsFromImage(img)
      reqsHash == ReqsHash(reqs)
      ami      == [Name |-> img.Name, AmiID |-> img.ImageId,
                   CreationDate |-> img.CreationDate, Requirements |-> reqs]
      put      == [h \in DOMAIN images \cup {reqsHash} |-> IF h = reqsHash THEN ami ELSE images[h]]
  IN IF reqsHash \in DOMAIN images
     THEN LET v == images[reqsHash]
              candidateCreationTime == ParseTime(img.CreationDate)
              existingCreationTime  == ParseTime(v.CreationDate)
          IN IF existingCreationTime = candidateCreationTime /\ StrLess(img.Name, v.Name)
             THEN images
             ELSE IF Unix(candidateCreationTime) < Unix(existingCreationTime)
             THEN images
             ELSE put
     ELSE put

\* The body of the page callback of getAMIs for one image: images is the map
\* from requirements hash to AMI.
CallbackImage(images, img) ==
  LET reqs     == getRequirementsFromImage(img)
      reqsHash == ReqsHash(reqs)
      ami      == [Name |-> img.Name, AmiID |-> img.ImageId,
                   CreationDate |-> img.CreationDate, Requirements |-> reqs]
      put      == [h \in DOMAIN images \cup {reqsHash} |-> IF h = reqsHash THEN ami ELSE images[h]]
  IN IF ReqAny(reqs, LabelArchStable) \notin WellKnownArchitectures THEN images
     ELSE IF reqsHash \in DOMAIN images
     THEN LET v == images[reqsHash]
              candidateCreationTime == ParseTime(img.CreationDate)
              existingCreationTime  == ParseTime(v.CreationDate)
          IN IF existingCreationTime = candidateCreationTime /\ StrLess(img.Name, v.Name)
             THEN images
             ELSE IF Unix(candidateCreationTime) < Unix(existingCreationTime)
             THEN images
             ELSE put
     ELSE put

RECURSIVE CallbackPage(_, _)
CallbackPage(images, page) ==
  IF page = <<>> THEN images ELSE CallbackPage(CallbackImage(images, Head(page)), Tail(page))

\* DescribeInput with the filters sent as they are, an empty list too.
DescribeInputUnguarded(g) ==
  [Filters |-> g.Filters,
   Owners  |-> IF Len(g.Owners) > 0 THEN g.Owners ELSE <<>>,
   NilFilters |-> FALSE]

\* The DescribeImages input of one FiltersAndOwners: empty filters and empty
\* owners are sent as nil.
DescribeInput(g) ==
  [Filters |-> IF Len(g.Filters) > 0 THEN g.Filters ELSE <<>>,
   Owners  |-> IF Len(g.Owners) > 0 THEN g.Owners ELSE <<>>,
   NilFilters |-> ~(Len(g.Filters) > 0)]

EmptyImages == [h \in {} |-> 0]

\* lo.Values(images): the values of the map.
Values(images) == {images[h] : h \in DOMAIN images}

\* The loop of getAMIs over filterAndOwnerSets when no describe call fails:
\* every page of every call through the callback, one map for all.
RECURSIVE DescribeAll(_, _, _)
DescribeAll(cat, groups, images) ==
  IF groups = <<>> THEN images
  ELSE LET in == DescribeInput(Head(groups))
       IN DescribeAll(cat, Tail(groups),
                      CallbackPage(images, DescribeImages(cat, in.Filters, in.Owners)))

\* ------------------------------------------------------------- getDefaultAMIs
\* The page callback of getDefaultAMIs: name and creation date of every
\* element of res whose id a described image has.
BackfillImage(res, img) ==
  [j \in 1..Len(res) |->
     IF res[j].AmiID = img.ImageId
     THEN [res[j] EXCEPT !.Name = img.Name, !.CreationDate = img.CreationDate]
     ELSE res[j]]

RECURSIVE BackfillPage(_, _)
BackfillPage(res, page) ==
  IF page = <<>> THEN res ELSE BackfillPage(BackfillImage(res, Head(page)), Tail(page))

\* The image-id filter of the describe call of getDefaultAMIs.
RECURSIVE AmiIDs(_)
AmiIDs(res) == IF res = <<>> THEN <<>> ELSE <<Head(res).AmiID>> \o AmiIDs(Tail(res))

DefaultDescribeFilters(res) == <<[Name |-> "image-id", Values |-> AmiIDs(res)]>>

\* amiFamily.DefaultAMIs(version): the descriptors of a family, each an SSM
\* query and static requirements.  AL2 has one descriptor per architecture;
\* Bottlerocket has two descriptors with one query, the second for instance
\* types with an accelerator; any other family has none.
LabelInstanceAcceleratorCount == "karpenter.k8s.aws/instance-accelerator-count"

DefaultAMIs(family, version) ==
  CASE family = "AL2" ->
         <<[Query |-> <<family, version, "amd64">>,
            Requirements |-> {[Key |-> LabelArchStable, Values |-> {"amd64"}]}],
           [Query |-> <<family, version, "arm64">>,
            Requirements |-> {[Key |-> LabelArchStable, Values |-> {"arm64"}]}]>>
    [] family = "Bottlerocket" ->
         <<[Query |-> <<family, version, "amd64">>,
            Requirements |-> {[Key |-> LabelArchStable, Values |-> {"amd64"}]}],
           [Query |-> <<family, version, "amd64">>,
            Requirements |-> {[Key |-> LabelArchStable, Values |-> {"amd64"}],
                              [Key |-> LabelInstanceAcceleratorCount, Values |-> {"1"}]}]>>
    [] OTHER -> <<>>

\* ------------------------------------------------------------- MapToInstanceTypes
\* requirements.Compatible(incoming) of an instance type with the requirements
\* of an AMI, nil error: a key of the AMI outside the well-known labels must be
\* known to the instance type (unless the AMI wants it absent), and on every
\* key the two share the value sets meet (or both are empty).
Compatible(requirements, incoming) ==
  /\ \A q \in incoming :
       q.Key \notin WellKnownLabels => (\E r \in requirements : r.Key = q.Key) \/ q.Values = {}
  /\ \A r \in requirements, q \in incoming :
       r.Key = q.Key => (r.Values \cap q.Values # {}) \/ (r.Values = {} /\ q.Values = {})

\* amiIDs[id] = append(amiIDs[id], instanceType); a key not in the map reads
\* as the nil slice.
AppendUnder(amiIDs, id, instanceType) ==
  [k \in DOMAIN amiIDs \cup {id} |->
     IF k = id THEN Append(IF id \in DOMAIN amiIDs THEN amiIDs[id] ELSE <<>>, instanceType)
     ELSE amiIDs[k]]

\* MapInstanceType without the break: the instance type goes under every
\* compatible AMI from place i on.
RECURSIVE MapInstanceTypeNoBreak(_, _, _, _)
MapInstanceTypeNoBreak(amiIDs, a, instanceType, i) ==
  IF i > Len(a) THEN amiIDs
  ELSE MapInstanceTypeNoBreak(
         IF Compatible(instanceType.Requirements, a[i].Requirements)
         THEN AppendUnder(amiIDs, a[i].AmiID, instanceType) ELSE amiIDs,
         a, instanceType, i + 1)

\* The inner loop over the AMIs from place i on, for one instance type: the
\* first compatible AMI takes it and ends the loop.
RECURSIVE MapInstanceType(_, _, _, _)
MapInstanceType(amiIDs, a, instanceType, i) ==
  IF i > Len(a) THEN amiIDs
  ELSE IF Compatible(instanceType.Requirements, a[i].Requirements)
  THEN AppendUnder(amiIDs, a[i].AmiID, instanceType)
  ELSE MapInstanceType(amiIDs, a, instanceType, i + 1)

\* The outer loop over the instance types.
RECURSIVE MapInstanceTypes(_, _, _)
MapInstanceTypes(amiIDs, a, instanceTypes) ==
  IF instanceTypes = <<>> THEN amiIDs
  ELSE MapInstanceTypes(MapInstanceType(amiIDs, a, Head(instanceTypes), 1), a, Tail(instanceTypes))

MapToInstanceTypes(a, instanceTypes) == MapInstanceTypes(EmptyImages, a, instanceTypes)

\* ------------------------------------------------------------- inputs of the model

Versions == {"1.27", "1.28"}

T1 == "2023-01-01T00:00:00Z"

T2 == "2023-01-02T00:00:00Z"

Image(id, name, date, arch, tags) ==
  [ImageId |-> id, Name |-> name, CreationDate |-> date, Architecture |-> arch, Tags |-> tags]

\* Catalogs of the resolver runs: every date for both images, and every name,
\* architecture and tag set for ami-2 (ami-1 is "ami-a", untagged, of a
\* supported or of an unsupported architecture).
TagSets == {{}, {<<LabelArchStable, "arm64">>}, {<<"team", "x">>}}

ImagesOf(id) ==
  {Image(id, n, d, a, t) : n \in IF id = "ami-1" THEN {"ami-a"} ELSE {"ami-a", "ami-b"},
                           d \in Dates,
                           a \in IF id = "ami-1" THEN {"arm64", "exotic-arch"}
                                 ELSE {"x86_64", "arm64", "exotic-arch"},
                           t \in IF id = "ami-1" THEN {{}} ELSE TagSets}

ResolveCatalogs == {c \in [Range(ImageIds) -> UNION {ImagesOf(id) : id \in Range(ImageIds)}] :
                      \A id \in Range(ImageIds) : c[id].ImageId = id}

\* Catalogs of the concurrent runs: ami-2 ties with ami-1 on date and name, or
\* is newer.
SpecCatalogs ==
  {[id \in Range(ImageIds) |->
      IF id = "ami-1" THEN Image(id, "ami-a", T1, "x86_64", {}) ELSE Image(id, nd[1], nd[2], "arm64", {})] :
     nd \in {<<"ami-a", T1>>, <<"ami-b", T2>>}}

\* Selector terms.
Terms ==
  {[NoTerm EXCEPT !.ID = "ami-1"], [NoTerm EXCEPT !.ID = "ami-2"],
   [NoTerm EXCEPT !.Owner = "self"], [NoTerm EXCEPT !.Owner = "amazon"],
   [NoTerm EXCEPT !.Name = "ami-a"], [NoTerm EXCEPT !.Tags = {<<"team", "*">>}]}

NodeClass(family, terms) == [family |-> family, terms |-> terms]

ResolveNodeClasses == {NodeClass("", ts) : ts \in DistinctSeqs(Terms, MaxTerms)}

\* The node classes of the runs on cache keys: the lists over two ID terms and
\* two attribute terms.
KeysTerms ==
  {[NoTerm EXCEPT !.ID = "ami-1"], [NoTerm EXCEPT !.ID = "ami-2"],
   [NoTerm EXCEPT !.Owner = "self"], [NoTerm EXCEPT !.Name = "ami-a"]}

KeysNodeClasses == {NodeClass("", ts) : ts \in DistinctSeqs(KeysTerms, MaxTerms)}

\* The node classes of the runs on GetFilterAndOwnerSets: terms with an id
\* (one with a name too), and every term without an id over a name, an owner
\* and a tag with the value "*", one value or two values.
CompileTerms ==
  {[NoTerm EXCEPT !.ID = "ami-1"], [NoTerm EXCEPT !.ID = "ami-2"],
   [NoTerm EXCEPT !.ID = "ami-1", !.Name = "ami-a"]}
  \cup {[ID |-> "", Name |-> n, Owner |-> o, Tags |-> t] :
          n \in {"", "ami-a"}, o \in {"", "self"},
          t \in {{}, {<<"team", "*">>}, {<<"team", "x,y">>}, {<<"team", "x">>}}}

CompileNodeClasses == {NodeClass("", ts) : ts \in DistinctSeqs(CompileTerms, MaxTerms)}

\* The node classes of the runs of one call: every list of selector terms, and
\* without terms the families with descriptors and one without.
OnceNodeClasses ==
  ResolveNodeClasses
  \cup {NodeClass("AL2", <<>>), NodeClass("Bottlerocket", <<>>), NodeClass("Custom", <<>>)}

SpecNodeClasses ==
  {NodeClass("AL2", <<>>),
   NodeClass("", <<[NoTerm EXCEPT !.Owner = "self"], [NoTerm EXCEPT !.Owner = "amazon"]>>)}

\* The parameter store: the image id under each query of the model.
Queries ==
  {<<"AL2", v, a>> : v \in Versions, a \in {"amd64", "arm64"}}
  \cup {<<"Bottlerocket", v, "amd64">> : v \in Versions}

SsmStore ==
  [q \in Queries |->
     IF q[2] = "1.27" THEN (IF q[3] = "amd64" THEN "ami-1" ELSE "ami-2")
     ELSE (IF q[3] = "amd64" THEN "ami-2" ELSE "ami-9")]

\* The AMIs slices MapToInstanceTypes is called on: each image of the catalog
\* with the requirements of an architecture, of an architecture and a zone, or
\* of an architecture that no value meets.
LabelTopologyZone == "topology.kubernetes.io/zone"

MapRequirements ==
  {{[Key |-> LabelArchStable, Values |-> {"amd64"}]},
   {[Key |-> LabelArchStable, Values |-> {"arm64"}]},
   {[Key |-> LabelArchStable, Values |-> {"amd64"}], [Key |-> LabelTopologyZone, Values |-> {"zone-a"}]},
   {[Key |-> LabelArchStable, Values |-> {}]}}

MapAMIs ==
  {[Name |-> IF id = "ami-1" THEN "ami-a" ELSE "ami-b", AmiID |-> id,
    CreationDate |-> IF id = "ami-1" THEN T1 ELSE T2, Requirements |-> reqs] :
     id \in Range(ImageIds), reqs \in MapRequirements}

MapSlices == UNION {[1..n -> MapAMIs] : n \in 0..MaxAMIs}

\* cloudprovider.InstanceType: a name and requirements.
InstanceTypes ==
  {[Name |-> "m5.large",
    Requirements |-> {[Key |-> LabelArchStable, Values |-> {"amd64"}],
                      [Key |-> LabelTopologyZone, Values |-> {"zone-a", "zone-b"}]}],
   [Name |-> "c6g.large",
    Requirements |-> {[Key |-> LabelArchStable, Values |-> {"arm64"}],
                      [Key |-> LabelTopologyZone, Values |-> {"zone-b"}]}],
   [Name |-> "t3.micro",
    Requirements |-> {[Key |-> LabelArchStable, Values |-> {"amd64"}]}]}

\* The lists of instance types of a call: no instance type twice.
InstanceTypeLists == {<<>>} \cup DistinctSeqs(InstanceTypes, MaxInstanceTypes)

\* ------------------------------------------------------------- state
VARIABLES
  catalog,                \* the images of the catalog, by id
  mode,                   \* which node classes Get is called with
  serverVersion,          \* the version the API server reports
  cache,                  \* Provider.cache: key -> [amis: array id, by: the terms of the call that set it]
  kubernetesVersionCache, \* Provider.kubernetesVersionCache: "" when empty
  arrays,                 \* the backing arrays of the live AMIs slices
  wk,                     \* each worker's Get call: position and locals
  calls                   \* Get calls started

\* The workers that call Get: two in the concurrent runs, one in the others.
Workers == IF mode \in {"classes", "default"} THEN {"w1", "w2"} ELSE {"w1"}

vars == <<catalog, mode, serverVersion, cache, kubernetesVersionCache,
          arrays, wk, calls>>

EmptyCache == [k \in {} |-> 0]

\* A worker outside Get.  amis is the slice Get returned (0: nil), err whether
\* it returned an error.  The other fields after err record what the call did:
\* hit (the cache lookup found the key), overlap (another call was resolving
\* the same key at the lookup), ext (the external calls made), ssmOk (the
\* descriptors whose lookup succeeded), resolved (the images of the slice the
\* resolution produced), stored and stamp (the array set in the cache, and
\* the rank of that write among the calls under way), wroteImages,
\* wroteVersion, raced (the sort overlapped another sort of the same array).
\* instanceTypes and amiIDs are the argument and the result of the caller's
\* MapToInstanceTypes on the slice.
IdleWorker ==
  [pc |-> "idle", family |-> "", terms |-> <<>>, key |-> FamilyKey(""),
   kubernetesVersion |-> "", di |-> 0, res |-> <<>>, gi |-> 0, images |-> EmptyImages,
   sent |-> FALSE, todo |-> <<>>, amis |-> 0, err |-> FALSE,
   hit |-> FALSE, ext |-> {}, wroteImages |-> FALSE, wroteVersion |-> "", ssmOk |-> {},
   stored |-> 0, stamp |-> 0, resolved |-> {}, overlap |-> FALSE, raced |-> FALSE,
   instanceTypes |-> <<>>, amiIDs |-> EmptyImages]

InitCommon ==
  /\ serverVersion = "1.27"
  /\ cache = EmptyCache
  /\ kubernetesVersionCache = ""
  /\ arrays = EmptyCache
  /\ wk = [w \in Workers |-> IdleWorker]

Init ==
  /\ catalog \in SpecCatalogs
  /\ mode = "classes"
  /\ calls = 0
  /\ InitCommon

\* The node classes Get is called with.
NodeClasses ==
  CASE mode = "classes" -> SpecNodeClasses
    [] mode = "default" -> {nc \in SpecNodeClasses : Len(nc.terms) = 0}
    [] mode = "terms"   -> ResolveNodeClasses
    [] mode = "once"    -> OnceNodeClasses
    [] mode = "compile" -> CompileNodeClasses
    [] OTHER            -> KeysNodeClasses

\* ------------------------------------------------------------- the heap of slices
\* The smallest array id not in use.
NewArray(arr) == CHOOSE a \in 1..(Cardinality(DOMAIN arr) + 1) : a \notin DOMAIN arr

\* The arrays still referenced by the cache or by a worker.
Live(arr, c, ws) ==
  LET ids == {c[k].amis : k \in DOMAIN c} \cup {ws[w].amis : w \in Workers}
  IN [a \in DOMAIN arr \cap ids |-> arr[a]]

\* CacheSet that leaves an entry already under the key in place.
CacheSetIfAbsent(c, key, a, terms) ==
  [k \in DOMAIN c \cup {key} |-> IF k \in DOMAIN c THEN c[k] ELSE [amis |-> a, by |-> terms]]

\* cache.SetDefault(key, value) by a call with these selector terms.
CacheSet(c, key, a, terms) ==
  [k \in DOMAIN c \cup {key} |-> IF k = key THEN [amis |-> a, by |-> terms] ELSE c[k]]

\* The locals of a finished call are dropped.
Finish(r, pc) ==
  [r EXCEPT !.pc = pc, !.di = 0, !.res = <<>>, !.gi = 0, !.images = EmptyImages,
            !.sent = FALSE, !.todo = <<>>]

Groups(w) == GetFilterAndOwnerSets(wk[w].terms)

\* ------------------------------------------------------------- Get
\* The positions of a call between its cache miss and its SetDefault.
Resolving == {"version", "ssm", "describeDefault", "storeDefault", "describe", "store"}

\* The rank of the next write among the calls under way.
NextStamp ==
  LET S == {wk[w].stamp : w \in Workers}
  IN 1 + (CHOOSE m \in S : \A x \in S : x <= m)

\* p.cache.Get(key): the cache drops an entry whose TTL has run out when it is
\* looked up.
CacheGet(c, key, expired) == IF expired THEN [k \in DOMAIN c \ {key} |-> c[k]] ELSE c

\* Found for a cache that never answers.
NeverFound(c, key) == key \in DOMAIN c /\ FALSE

\* The ok of p.cache.Get(key).
Found(c, key) == key \in DOMAIN c

\* GetCall with the version that the API server reports in the key of the
\* path of getDefaultAMIs.
GetCallKeyedByVersion(w) ==
  /\ wk[w].pc \in {"idle", "done", "failed"}
  /\ calls < MaxCalls
  /\ calls' = calls + 1
  /\ \E nc \in NodeClasses, expired, hashOk \in BOOLEAN :
       LET key  == IF Len(nc.terms) = 0
                   THEN [family |-> nc.family, hash |-> {serverVersion}]
                   ELSE HashKey(GetFilterAndOwnerSets(nc.terms))
           c    == CacheGet(cache, key, expired)
           busy == {v \in Workers \ {w} : wk[v].key = key /\ wk[v].pc \in Resolving}
           r0   == [IdleWorker EXCEPT !.family = nc.family, !.terms = nc.terms, !.key = key,
                                      !.overlap = busy # {} /\ ~Found(c, key)]
           r1   == IF ~hashOk
                   THEN [IdleWorker EXCEPT !.pc = "failed", !.family = nc.family,
                                           !.terms = nc.terms, !.err = TRUE]
                   ELSE IF Found(c, key)
                   THEN [r0 EXCEPT !.pc = "sort", !.amis = c[key].amis, !.hit = TRUE]
                   ELSE IF Len(nc.terms) = 0
                   THEN [r0 EXCEPT !.pc = "version"]
                   ELSE [r0 EXCEPT !.pc = "describe", !.gi = 1]
           ws   == [v \in Workers |->
                     IF v = w THEN r1
                     ELSE IF v \in busy /\ r1.overlap THEN [wk[v] EXCEPT !.overlap = TRUE]
                     ELSE wk[v]]
       IN /\ ~hashOk => Len(nc.terms) > 0 /\ ~expired
          /\ expired => key \in DOMAIN cache
          /\ cache' = c
          /\ wk' = ws
          /\ arrays' = Live(arrays, c, ws)
  /\ UNCHANGED <<catalog, mode, serverVersion, kubernetesVersionCache>>

\* Get up to the cache lookup of getDefaultAMIs (no selector terms) or of
\* getAMIs: a hit returns the cached slice, a miss starts the resolution.  On
\* the path of getAMIs an error of hashstructure.Hash ends Get before the
\* lookup.
GetCall(w) ==
  /\ wk[w].pc \in {"idle", "done", "failed"}
  /\ calls < MaxCalls
  /\ calls' = calls + 1
  /\ \E nc \in NodeClasses, expired, hashOk \in BOOLEAN :
       LET key  == IF Len(nc.terms) = 0 THEN FamilyKey(nc.family)
                   ELSE HashKey(GetFilterAndOwnerSets(nc.terms))
           c    == CacheGet(cache, key, expired)
           busy == {v \in Workers \ {w} : wk[v].key = key /\ wk[v].pc \in Resolving}
           r0   == [IdleWorker EXCEPT !.family = nc.family, !.terms = nc.terms, !.key = key,
                                      !.overlap = busy # {} /\ ~Found(c, key)]
           r1   == IF ~hashOk
                   THEN [IdleWorker EXCEPT !.pc = "failed", !.family = nc.family,
                                           !.terms = nc.terms, !.err = TRUE]
                   ELSE IF Found(c, key)
                   THEN [r0 EXCEPT !.pc = "sort", !.amis = c[key].amis, !.hit = TRUE]
                   ELSE IF Len(nc.terms) = 0
                   THEN [r0 EXCEPT !.pc = "version"]
                   ELSE [r0 EXCEPT !.pc = "describe", !.gi = 1]
           ws   == [v \in Workers |->
                     IF v = w THEN r1
                     ELSE IF v \in busy /\ r1.overlap THEN [wk[v] EXCEPT !.overlap = TRUE]
                     ELSE wk[v]]
       IN /\ ~hashOk => Len(nc.terms) > 0 /\ ~expired
          /\ expired => key \in DOMAIN cache
          /\ cache' = c
          /\ wk' = ws
          /\ arrays' = Live(arrays, c, ws)
  /\ UNCHANGED <<catalog, mode, serverVersion, kubernetesVersionCache>>

\* KubeServerVersion without the SetDefault of the discovered version.
KubeServerVersionUncached(w, expired, ok) ==
  /\ wk[w].pc = "version"
  /\ expired => kubernetesVersionCache # ""
  /\ LET cached  == kubernetesVersionCache # "" /\ ~expired
         version == IF cached THEN kubernetesVersionCache ELSE serverVersion
         next    == IF Len(DefaultAMIs(wk[w].family, version)) > 0 THEN "ssm" ELSE "describeDefault"
     IN /\ cached => ok
        /\ IF ok
           THEN wk' = [wk EXCEPT ![w] =
                         [@ EXCEPT !.pc = next, !.kubernetesVersion = version, !.di = 1,
                                   !.ext = IF cached THEN @ ELSE @ \cup {"discovery"},
                                   !.wroteVersion = IF cached THEN @ ELSE version]]
           ELSE wk' = [wk EXCEPT ![w] =
                         Finish([@ EXCEPT !.err = TRUE, !.ext = @ \cup {"discovery"}], "failed")]
        /\ kubernetesVersionCache' = IF cached THEN kubernetesVersionCache ELSE ""
  /\ UNCHANGED <<catalog, mode, serverVersion, cache, arrays, calls>>

\* KubeServerVersion: the cached version (when its TTL has not run out), or
\* the discovery call and SetDefault; a discovery error ends Get.
KubeServerVersion(w, expired, ok) ==
  /\ wk[w].pc = "version"
  /\ expired => kubernetesVersionCache # ""
  /\ LET cached  == kubernetesVersionCache # "" /\ ~expired
         version == IF cached THEN kubernetesVersionCache ELSE serverVersion
         next    == IF Len(DefaultAMIs(wk[w].family, version)) > 0 THEN "ssm" ELSE "describeDefault"
     IN /\ cached => ok
        /\ IF ok
           THEN /\ wk' = [wk EXCEPT ![w] =
                            [@ EXCEPT !.pc = next, !.kubernetesVersion = version, !.di = 1,
                                      !.ext = IF cached THEN @ ELSE @ \cup {"discovery"},
                                      !.wroteVersion = IF cached THEN @ ELSE version]]
                /\ kubernetesVersionCache' = version
           ELSE /\ wk' = [wk EXCEPT ![w] =
                            Finish([@ EXCEPT !.err = TRUE, !.ext = @ \cup {"discovery"}], "failed")]
                /\ kubernetesVersionCache' = ""
  /\ UNCHANGED <<catalog, mode, serverVersion, cache, arrays, calls>>

\* ResolveSSMParameter with a failed lookup returned to the caller of Get.
ResolveSSMParameterFatal(w, ok) ==
  /\ wk[w].pc = "ssm"
  /\ LET descs == DefaultAMIs(wk[w].family, wk[w].kubernetesVersion)
         ami   == descs[wk[w].di]
         res   == Append(wk[w].res, [Name |-> "", AmiID |-> SsmStore[ami.Query],
                                     CreationDate |-> "", Requirements |-> ami.Requirements])
     IN wk' = [wk EXCEPT ![w] =
                 IF ok
                 THEN [@ EXCEPT !.res = res, !.di = @ + 1, !.ext = @ \cup {"ssm"},
                                !.ssmOk = @ \cup {wk[w].di},
                                !.pc = IF wk[w].di = Len(descs) THEN "describeDefault" ELSE "ssm"]
                 ELSE Finish([@ EXCEPT !.err = TRUE, !.ext = @ \cup {"ssm"}], "failed")]
  /\ UNCHANGED <<catalog, mode, serverVersion, cache, kubernetesVersionCache,
                 arrays, calls>>

\* One turn of the loop over defaultAMIs: resolveSSMParameter, and the append
\* to res when it succeeds.
ResolveSSMParameter(w, ok) ==
  /\ wk[w].pc = "ssm"
  /\ LET descs == DefaultAMIs(wk[w].family, wk[w].kubernetesVersion)
         ami   == descs[wk[w].di]
         res   == IF ok
                  THEN Append(wk[w].res, [Name |-> "", AmiID |-> SsmStore[ami.Query],
                                          CreationDate |-> "", Requirements |-> ami.Requirements])
                  ELSE wk[w].res
     IN wk' = [wk EXCEPT ![w] =
                 [@ EXCEPT !.res = res, !.di = @ + 1, !.ext = @ \cup {"ssm"},
                           !.ssmOk = IF ok THEN @ \cup {wk[w].di} ELSE @,
                           !.pc = IF wk[w].di = Len(descs) THEN "describeDefault" ELSE "ssm"]]
  /\ UNCHANGED <<catalog, mode, serverVersion, cache, kubernetesVersionCache,
                 arrays, calls>>

\* The images still to come of the describe call in flight: the whole answer
\* when the call has not been sent yet.
Stream(w, filters, owners) ==
  IF wk[w].sent THEN wk[w].todo ELSE DescribeImages(catalog, filters, owners)

\* One page of the describe call of getDefaultAMIs, through its callback; the
\* last page ends the call.
DescribeDefaultPage(w, n) ==
  /\ wk[w].pc = "describeDefault"
  /\ LET stream == Stream(w, DefaultDescribeFilters(wk[w].res), <<>>)
         rest   == SubSeq(stream, n + 1, Len(stream))
     IN /\ n <= Len(stream)
        /\ (n = 0) => (stream = <<>>)
        /\ wk' = [wk EXCEPT ![w] =
                    [@ EXCEPT !.res = BackfillPage(@, SubSeq(stream, 1, n)),
                              !.ext = @ \cup {"describe"},
                              !.sent = rest # <<>>, !.todo = rest,
                              !.pc = IF rest = <<>> THEN "storeDefault" ELSE @]]
  /\ UNCHANGED <<catalog, mode, serverVersion, cache, kubernetesVersionCache,
                 arrays, calls>>

\* StoreDefault that sets the cache only when every descriptor gave an AMI.
StoreDefaultCompleteOnly(w) ==
  /\ wk[w].pc = "storeDefault"
  /\ LET a    == NewArray(arrays)
         full == Len(wk[w].res) = Len(DefaultAMIs(wk[w].family, wk[w].kubernetesVersion))
         c    == IF full THEN CacheSet(cache, wk[w].key, a, wk[w].terms) ELSE cache
         ws   == [wk EXCEPT ![w] =
                    Finish([@ EXCEPT !.amis = a, !.stored = IF full THEN a ELSE 0,
                                     !.wroteImages = full,
                                     !.stamp = NextStamp, !.resolved = Range(wk[w].res)], "sort")]
         ar   == [x \in DOMAIN arrays \cup {a} |-> IF x = a THEN wk[w].res ELSE arrays[x]]
     IN /\ cache' = c
        /\ wk' = ws
        /\ arrays' = Live(ar, c, ws)
  /\ UNCHANGED <<catalog, mode, serverVersion, kubernetesVersionCache, calls>>

\* p.cache.SetDefault(family, res) and the return of res: one slice.
StoreDefault(w) ==
  /\ wk[w].pc = "storeDefault"
  /\ LET a  == NewArray(arrays)
         c  == CacheSet(cache, wk[w].key, a, wk[w].terms)
         ws == [wk EXCEPT ![w] =
                  Finish([@ EXCEPT !.amis = a, !.stored = a, !.wroteImages = TRUE,
                                   !.stamp = NextStamp, !.resolved = Range(wk[w].res)], "sort")]
         ar == [x \in DOMAIN arrays \cup {a} |-> IF x = a THEN wk[w].res ELSE arrays[x]]
     IN /\ cache' = c
        /\ wk' = ws
        /\ arrays' = Live(ar, c, ws)
  /\ UNCHANGED <<catalog, mode, serverVersion, kubernetesVersionCache, calls>>

\* One page of the describe call of the current FiltersAndOwners of getAMIs,
\* through its callback; the last page moves to the next FiltersAndOwners.
DescribePage(w, n) ==
  /\ wk[w].pc = "describe"
  /\ LET in     == DescribeInput(Groups(w)[wk[w].gi])
         stream == Stream(w, in.Filters, in.Owners)
         rest   == SubSeq(stream, n + 1, Len(stream))
         last   == wk[w].gi = Len(Groups(w))
     IN /\ n <= Len(stream)
        /\ (n = 0) => (stream = <<>>)
        /\ wk' = [wk EXCEPT ![w] =
                    [@ EXCEPT !.images = CallbackPage(@, SubSeq(stream, 1, n)),
                              !.ext = @ \cup {"describe"},
                              !.sent = rest # <<>>, !.todo = rest,
                              !.gi = IF rest = <<>> /\ ~last THEN @ + 1 ELSE @,
                              !.pc = IF rest = <<>> /\ last THEN "store" ELSE @]]
  /\ UNCHANGED <<catalog, mode, serverVersion, cache, kubernetesVersionCache,
                 arrays, calls>>

\* DescribeFail with what the pages read so far gave set in the cache.
DescribeFailStoring(w) ==
  /\ wk[w].pc \in {"describe", "describeDefault"}
  /\ LET a  == NewArray(arrays)
         so == IF wk[w].pc = "describe"
               THEN CHOOSE o \in Orderings(Values(wk[w].images)) : TRUE
               ELSE wk[w].res
         ar == [x \in DOMAIN arrays \cup {a} |-> IF x = a THEN so ELSE arrays[x]]
         c  == CacheSet(cache, wk[w].key, a, wk[w].terms)
         ws == [wk EXCEPT ![w] = Finish([@ EXCEPT !.err = TRUE, !.ext = @ \cup {"describe"}], "failed")]
     IN /\ cache' = c
        /\ wk' = ws
        /\ arrays' = Live(ar, c, ws)
  /\ UNCHANGED <<catalog, mode, serverVersion, kubernetesVersionCache, calls>>

\* DescribeImagesPagesWithContext returns an error, on either path: Get
\* returns nil and the error.
DescribeFail(w) ==
  /\ wk[w].pc \in {"describe", "describeDefault"}
  /\ wk' = [wk EXCEPT ![w] = Finish([@ EXCEPT !.err = TRUE, !.ext = @ \cup {"describe"}], "failed")]
  /\ UNCHANGED <<catalog, mode, serverVersion, cache, kubernetesVersionCache,
                 arrays, calls>>

\* p.cache.SetDefault(hash, lo.Values(images)) and return lo.Values(images):
\* two slices, each in the order its range over the map produced.
Store(w) ==
  /\ wk[w].pc = "store"
  /\ \E stored, returned \in Orderings(Values(wk[w].images)) :
       LET a  == NewArray(arrays)
           ar == [x \in DOMAIN arrays \cup {a} |-> IF x = a THEN stored ELSE arrays[x]]
           b  == NewArray(ar)
           br == [x \in DOMAIN ar \cup {b} |-> IF x = b THEN returned ELSE ar[x]]
           c  == CacheSet(cache, wk[w].key, a, wk[w].terms)
           ws == [wk EXCEPT ![w] =
                    Finish([@ EXCEPT !.amis = b, !.stored = a, !.wroteImages = TRUE,
                                     !.stamp = NextStamp, !.resolved = Range(returned)], "sort")]
       IN /\ cache' = c
          /\ wk' = ws
          /\ arrays' = Live(br, c, ws)
  /\ UNCHANGED <<catalog, mode, serverVersion, kubernetesVersionCache, calls>>

\* amis.Sort() of Get, in place on the slice getDefaultAMIs or getAMIs
\* returned.  The sort is not atomic: SortBegin to SortEnd.  Two sorts of one
\* array that overlap, and that write (the array is not yet as Sort leaves
\* it), race: the array ends with any of its elements at any place.
SortBegin(w) ==
  /\ wk[w].pc = "sort"
  /\ LET a      == wk[w].amis
         others == {v \in Workers \ {w} : wk[v].pc = "sorting" /\ wk[v].amis = a}
         racy   == others # {} /\ Sort(arrays[a]) # arrays[a]
     IN wk' = [v \in Workers |->
                 IF v = w THEN [wk[v] EXCEPT !.pc = "sorting", !.raced = racy]
                 ELSE IF v \in others THEN [wk[v] EXCEPT !.raced = @ \/ racy]
                 ELSE wk[v]]
  /\ UNCHANGED <<catalog, mode, serverVersion, cache, kubernetesVersionCache,
                 arrays, calls>>

SortOutcomes(a, raced) ==
  IF raced THEN [1..Len(a) -> Range(a)] ELSE {Sort(a)}

SortEnd(w) ==
  /\ wk[w].pc = "sorting"
  /\ \E out \in SortOutcomes(arrays[wk[w].amis], wk[w].raced) :
       arrays' = [arrays EXCEPT ![wk[w].amis] = out]
  /\ wk' = [wk EXCEPT ![w] = [@ EXCEPT !.pc = "done"]]
  /\ UNCHANGED <<catalog, mode, serverVersion, cache, kubernetesVersionCache,
                 calls>>

\* amis.MapToInstanceTypes(instanceTypes) by the caller that holds the slice.
MapCall(w) ==
  /\ wk[w].pc = "done"
  /\ wk[w].amis # 0
  /\ \E its \in InstanceTypeLists :
       wk' = [wk EXCEPT ![w] =
                [@ EXCEPT !.pc = "mapped", !.instanceTypes = its,
                          !.amiIDs = MapToInstanceTypes(arrays[wk[w].amis], its)]]
  /\ UNCHANGED <<catalog, mode, serverVersion, cache, kubernetesVersionCache,
                 arrays, calls>>

\* ------------------------------------------------------------- the environment
\* The cluster is upgraded.
Upgrade ==
  /\ serverVersion = "1.27"
  /\ serverVersion' = "1.28"
  /\ UNCHANGED <<catalog, mode, cache, kubernetesVersionCache, arrays, wk, calls>>

\* ------------------------------------------------------------- specifications
Step(w) ==
  \/ GetCall(w)
  \/ \E expired, ok \in BOOLEAN : KubeServerVersion(w, expired, ok)
  \/ \E ok \in BOOLEAN : ResolveSSMParameter(w, ok)
  \/ \E n \in 0..Len(ImageIds) : DescribeDefaultPage(w, n)
  \/ StoreDefault(w)
  \/ \E n \in 0..Len(ImageIds) : DescribePage(w, n)
  \/ DescribeFail(w)
  \/ Store(w)
  \/ SortBegin(w)
  \/ SortEnd(w)

Next ==
  \/ Step("w1")
  \/ Step("w2")
  \/ Upgrade

Spec == Init /\ [][Next]_vars

\* The concurrent runs with node classes without selector terms only: every
\* call takes the path of getDefaultAMIs.
InitDefault ==
  /\ catalog \in SpecCatalogs
  /\ mode = "default"
  /\ calls = 0
  /\ InitCommon

StepDefault(w) ==
  \/ GetCall(w)
  \/ \E expired, ok \in BOOLEAN : KubeServerVersion(w, expired, ok)
  \/ \E ok \in BOOLEAN : ResolveSSMParameter(w, ok)
  \/ \E n \in 0..Len(ImageIds) : DescribeDefaultPage(w, n)
  \/ StoreDefault(w)
  \/ DescribeFail(w)
  \/ SortBegin(w)
  \/ SortEnd(w)

NextDefault ==
  \/ StepDefault("w1")
  \/ StepDefault("w2")
  \/ Upgrade

SpecDefault == InitDefault /\ [][NextDefault]_vars

\* One resolution by getAMIs, over every catalog and every list of selector
\* terms of the model: the last Get call of one worker, on an empty cache.
InitResolve ==
  /\ catalog \in ResolveCatalogs
  /\ mode = "terms"
  /\ calls = MaxCalls - 1
  /\ InitCommon

NextResolve ==
  \/ GetCall("w1")
  \/ \E n \in 0..Len(ImageIds) : DescribePage("w1", n)
  \/ DescribeFail("w1")
  \/ Store("w1")
  \/ SortBegin("w1")
  \/ SortEnd("w1")

SpecResolve == InitResolve /\ [][NextResolve]_vars

\* One resolution by getAMIs over the catalogs whose images all have a
\* creation date of a whole second: every name, architecture and tag set.
ArchCatalogs == {c \in ResolveCatalogs : \A id \in Range(ImageIds) : c[id].CreationDate \in {T1, T2}}

InitArch ==
  /\ catalog \in ArchCatalogs
  /\ mode = "terms"
  /\ calls = MaxCalls - 1
  /\ InitCommon

SpecArch == InitArch /\ [][NextResolve]_vars

\* The last two Get calls of one worker, one after the other, over every list
\* of selector terms, on one catalog.
KeysCatalog ==
  [id \in Range(ImageIds) |->
     IF id = "ami-1" THEN Image(id, "ami-a", T1, "x86_64", {})
     ELSE Image(id, "ami-b", T2, "arm64", {<<"team", "x">>})]

InitKeys ==
  /\ catalog = KeysCatalog
  /\ mode = "keys"
  /\ calls = MaxCalls - 2
  /\ InitCommon

SpecKeys == InitKeys /\ [][NextResolve]_vars

\* One Get call of one worker over the lists of selector terms of the runs on
\* GetFilterAndOwnerSets, on one catalog.
InitCompile ==
  /\ catalog = KeysCatalog
  /\ mode = "compile"
  /\ calls = MaxCalls - 1
  /\ InitCommon

SpecCompile == InitCompile /\ [][NextResolve]_vars

\* One Get call of one worker on an empty cache, on either path: every list
\* of selector terms, and the families of the model.
InitOnce ==
  /\ catalog \in SpecCatalogs
  /\ mode = "once"
  /\ calls = MaxCalls - 1
  /\ InitCommon

NextOnce == Step("w1")

SpecOnce == InitOnce /\ [][NextOnce]_vars

\* MapToInstanceTypes on every AMIs slice of the model: a caller holds the
\* slice and calls with every list of instance types.
InitMap ==
  /\ catalog = KeysCatalog
  /\ mode = "map"
  /\ calls = MaxCalls
  /\ serverVersion = "1.27"
  /\ cache = EmptyCache
  /\ kubernetesVersionCache = ""
  /\ \E a \in MapSlices :
       /\ arrays = [x \in {1} |-> a]
       /\ wk = [w \in Workers |-> [IdleWorker EXCEPT !.pc = "done", !.amis = 1, !.resolved = Range(a)]]

NextMap == MapCall("w1")

SpecMap == InitMap /\ [][NextMap]_vars

\* ------------------------------------------------------------- properties
\* All reorderings of a sequence.
PermsOf(seq) == {[i \in 1..Len(seq) |-> seq[p[i]]] : p \in Orderings(1..Len(seq))}

Custom(w) == Len(wk[w].terms) > 0

\* A step of worker w's own call: its record changes in more than the two
\* marks that the steps of other workers set.
Moved(w) ==
  [wk[w] EXCEPT !.overlap = FALSE, !.raced = FALSE]
    # [wk'[w] EXCEPT !.overlap = FALSE, !.raced = FALSE]

\* The step is worker w's call of Get.
Called(w) == calls' = calls + 1 /\ Moved(w)

\* No two images of a set, or at two places of a slice, have the same
\* requirements.
DistinctRequirements(S) == \A x, y \in S : x # y => x.Requirements # y.Requirements

DistinctRequirementsSeq(a) ==
  \A i, j \in 1..Len(a) : i # j => a[i].Requirements # a[j].Requirements

SelfThenAmazon == <<[NoTerm EXCEPT !.Owner = "self"], [NoTerm EXCEPT !.Owner = "amazon"]>>

\* Both images of the catalog are kept by the architecture filter and have
\* the same requirements.
Colliding ==
  /\ \A id \in Range(ImageIds) :
       ReqAny(getRequirementsFromImage(catalog[id]), LabelArchStable) \in WellKnownArchitectures
  /\ getRequirementsFromImage(catalog["ami-1"]) = getRequirementsFromImage(catalog["ami-2"])

\* C1: what getAMIs produces on a cache miss holds no two images with the
\* same requirements: the map while the pages of every FiltersAndOwners come
\* in, the slice it stores in the cache and the slice it returns.
C1_DedupAcrossPagesAndGroups ==
  /\ \A w \in Workers :
       /\ wk[w].pc \in {"describe", "store"} =>
            /\ DistinctRequirements(Values(wk[w].images))
            /\ Cardinality(Values(wk[w].images)) = Cardinality(DOMAIN wk[w].images)
       /\ Custom(w) /\ wk[w].amis # 0 => DistinctRequirementsSeq(arrays[wk[w].amis])
  /\ \A k \in DOMAIN cache : DistinctRequirementsSeq(arrays[cache[k].amis])

\* C1 witness: two images with the same requirements came in through two
\* describe calls and one is left in the returned slice and in the cache.
C1_Witness ==
  /\ wk["w1"].pc = "done"
  /\ wk["w1"].terms = SelfThenAmazon
  /\ Colliding
  /\ Len(arrays[wk["w1"].amis]) = 1
  /\ Len(arrays[cache[wk["w1"].key].amis]) = 1

\* t1 is an earlier instant than t2.
TimeBefore(t1, t2) == t1.sec < t2.sec \/ (t1.sec = t2.sec /\ t1.nsec < t2.nsec)

\* The images the describe calls of these terms return.
Arrived(cat, terms) ==
  UNION {Range(DescribeImages(cat, DescribeInput(g).Filters, DescribeInput(g).Owners)) :
           g \in Range(GetFilterAndOwnerSets(terms))}

\* C2 (as claimed): when getAMIs has read every page, the AMI kept for a
\* requirements hash is no older than any image that came in with that hash,
\* and has the greatest name among those of its own creation time.
C2_KeepsNewestThenGreatestName ==
  \A w \in Workers : wk[w].pc = "store" =>
    \A img \in Arrived(catalog, wk[w].terms) :
      LET reqs == getRequirementsFromImage(img)
      IN ReqAny(reqs, LabelArchStable) \in WellKnownArchitectures =>
           /\ ReqsHash(reqs) \in DOMAIN wk[w].images
           /\ LET kept == wk[w].images[ReqsHash(reqs)]
              IN /\ ~TimeBefore(ParseTime(kept.CreationDate), ParseTime(img.CreationDate))
                 /\ ParseTime(kept.CreationDate) = ParseTime(img.CreationDate)
                      => ~StrLess(kept.Name, img.Name)

\* C3 (as claimed): when getAMIs has read every page, its images are those
\* the same catalog gives for every reordering of the selector terms.
C3_TermOrderIrrelevant ==
  \A w \in Workers : wk[w].pc = "store" =>
    \A p \in PermsOf(wk[w].terms) :
      Values(DescribeAll(catalog, GetFilterAndOwnerSets(p), EmptyImages)) = Values(wk[w].images)

\* C4: the key of a call on the path of getAMIs is the key of every
\* reordering of its selector terms, so a call finds the entry that a call
\* with any reordering of its terms stored (while it has not expired) and
\* returns that entry's slice.
C4_KeyIgnoresTermOrder ==
  [][\A w \in Workers :
       Called(w) /\ Len(wk'[w].terms) > 0 /\ ~wk'[w].err =>
         \A p \in PermsOf(wk'[w].terms) :
           /\ HashKey(GetFilterAndOwnerSets(p)) = wk'[w].key
           /\ (\E k \in DOMAIN cache' : cache'[k].by = p) =>
                /\ wk'[w].hit
                /\ cache'[wk'[w].key].by = p
                /\ wk'[w].amis = cache'[wk'[w].key].amis]_vars

\* C4 witness: a call with two selector terms hit the entry that a call with
\* the same terms in the other order stored.
C4_Witness ==
  /\ wk["w1"].pc = "done"
  /\ wk["w1"].hit
  /\ Len(wk["w1"].terms) = 2
  /\ cache[wk["w1"].key].by = <<wk["w1"].terms[2], wk["w1"].terms[1]>>

\* The call with record r is on the path of getDefaultAMIs.
Default(r) == r.pc # "idle" /\ Len(r.terms) = 0

\* The array of every entry that the step leaves in the cache is as before.
CachedArraysUnchanged ==
  \A k \in DOMAIN cache : arrays'[cache[k].amis] = arrays[cache[k].amis]

\* C5: a call whose key is in the cache (and has not expired) returns the
\* slice of that entry and makes no describe, parameter or discovery call and
\* no cache write; a call whose key is not in the cache and that does not
\* fail sets the key to the slice it resolved before it returns.
C5_HitServesEntryMissSets ==
  [][\A w \in Workers :
       /\ Called(w) /\ wk'[w].pc # "failed" =>
            /\ wk'[w].hit <=> wk'[w].key \in DOMAIN cache'
            /\ wk'[w].hit => wk'[w].pc = "sort" /\ wk'[w].amis = cache'[wk'[w].key].amis
       /\ wk'[w].hit =>
            /\ wk'[w].ext = {}
            /\ ~wk'[w].wroteImages /\ wk'[w].wroteVersion = "" /\ ~wk'[w].err
            /\ Moved(w) => cache' = cache /\ kubernetesVersionCache' = kubernetesVersionCache
       /\ Moved(w) /\ wk[w].pc \in {"store", "storeDefault"} =>
            /\ wk'[w].pc = "sort"
            /\ wk'[w].key \in DOMAIN cache'
            /\ cache'[wk'[w].key].amis = wk'[w].stored
            /\ wk'[w].resolved = IF wk[w].pc = "store" THEN Values(wk[w].images)
                                 ELSE Range(wk[w].res)
            /\ Range(arrays'[wk'[w].stored]) = wk'[w].resolved
            /\ Range(arrays'[wk'[w].amis]) = wk'[w].resolved
       /\ ~wk'[w].hit /\ wk'[w].pc \in {"sort", "sorting", "done"} =>
            wk'[w].wroteImages /\ wk'[w].stored # 0 /\ ~wk'[w].err]_vars

\* C5 witness: one worker missed on the family key and set it, the other then
\* hit that entry and returned its slice with no external call.
C5_Witness ==
  /\ wk["w1"].pc = "done" /\ ~wk["w1"].hit /\ wk["w1"].wroteImages
  /\ wk["w2"].pc = "done" /\ wk["w2"].hit /\ wk["w2"].ext = {}
  /\ wk["w2"].key = wk["w1"].key
  /\ wk["w2"].amis = wk["w1"].stored
  /\ Len(arrays[wk["w2"].amis]) = 2

\* C6 (as claimed): no step changes the array of an entry that it leaves in
\* the cache; the value under a key changes only by a set of another slice.
C6_CachedSnapshotImmutable ==
  [][\A k \in DOMAIN cache \cap DOMAIN cache' :
       cache'[k].amis = cache[k].amis => arrays'[cache'[k].amis] = arrays[cache[k].amis]]_vars

\* C7: a call that fails returns nil and an error and has set nothing in the
\* image cache: none of its steps from the miss to the failure changes the
\* cache or a cached array.  A later call with the key of a failed call that
\* finds an entry (one not expired) returns that entry's slice.
C7_FatalErrorWritesNothing ==
  [][\A w \in Workers :
       /\ wk'[w].pc = "failed" =>
            wk'[w].amis = 0 /\ wk'[w].err /\ ~wk'[w].wroteImages /\ wk'[w].stored = 0
       /\ Moved(w) /\ wk'[w].pc \in (Resolving \cup {"failed"})
                   /\ (wk[w].pc \in Resolving \/ wk'[w].pc = "failed") =>
            cache' = cache /\ CachedArraysUnchanged
       /\ \A v \in Workers :
            /\ wk[v].pc = "failed" /\ Called(w) /\ wk'[w].pc # "failed"
            /\ wk'[w].key = wk[v].key /\ wk[v].key \in DOMAIN cache'
            => /\ cache'[wk[v].key] = cache[wk[v].key]
               /\ wk'[w].amis = cache[wk[v].key].amis
               /\ CachedArraysUnchanged]_vars

\* C7 witness: a call failed at its describe call while the other worker's
\* entry for the same key was in the cache, and the next call for the key
\* returned that entry.
C7_Witness ==
  /\ wk["w1"].pc = "failed" /\ "describe" \in wk["w1"].ext
  /\ wk["w2"].pc = "done" /\ wk["w2"].hit
  /\ wk["w2"].key = wk["w1"].key
  /\ wk["w1"].key \in DOMAIN cache
  /\ wk["w2"].amis = cache[wk["w1"].key].amis

\* C8 (as claimed): a failed call on the path of getDefaultAMIs has set
\* nothing in the image cache and nothing in the version cache.
C8_FatalErrorWritesNoCache ==
  \A w \in Workers :
    wk[w].pc = "failed" /\ Default(wk[w]) => ~wk[w].wroteImages /\ wk[w].wroteVersion = ""

\* C8 (amended): a failed call on the path of getDefaultAMIs has set nothing
\* in the image cache.  It sets the version cache only in KubeServerVersion,
\* when it discovered the version itself: the version cache then holds the
\* version the server reported, and no later step of the call (the describe
\* call that fails among them) changes the version cache.
C8_FatalErrorKeepsDiscoveredVersion ==
  [][\A w \in Workers : Default(wk'[w]) =>
       /\ wk'[w].pc = "failed" =>
            /\ ~wk'[w].wroteImages /\ wk'[w].stored = 0
            /\ wk'[w].wroteVersion # "" => {"discovery", "describe"} \subseteq wk'[w].ext
       /\ Moved(w) /\ wk[w].pc = "version" =>
            IF wk'[w].wroteVersion # ""
            THEN /\ "discovery" \in wk'[w].ext
                 /\ wk'[w].wroteVersion = serverVersion
                 /\ kubernetesVersionCache' = serverVersion
            ELSE kubernetesVersionCache' \in {kubernetesVersionCache, ""}
       /\ Moved(w) /\ wk[w].pc \in {"ssm", "describeDefault"} =>
            /\ kubernetesVersionCache' = kubernetesVersionCache
            /\ cache' = cache
            /\ wk'[w].wroteVersion = wk[w].wroteVersion]_vars

\* C8 witness: a call discovered the version, set the version cache and then
\* failed at its describe call; the version cache holds what it set.
C8_Witness ==
  \E w \in Workers :
    /\ wk[w].pc = "failed" /\ Default(wk[w])
    /\ wk[w].wroteVersion # "" /\ "describe" \in wk[w].ext
    /\ kubernetesVersionCache = wk[w].wroteVersion

\* The descriptors of the call of a worker on the path of getDefaultAMIs.
Descriptors(r) == DefaultAMIs(r.family, r.kubernetesVersion)

\* A slice holds, for every descriptor whose lookup succeeded and for no
\* other, one AMI with the descriptor's requirements and the id its query has.
OnePerLookup(r, a) ==
  /\ Len(a) = Cardinality(r.ssmOk)
  /\ \A d \in r.ssmOk :
       \E i \in 1..Len(a) :
         /\ a[i].Requirements = Descriptors(r)[d].Requirements
         /\ a[i].AmiID = SsmStore[Descriptors(r)[d].Query]

\* C9: on the path of getDefaultAMIs a failed parameter lookup does not end
\* the call (a failed call failed at discovery or at the describe call), and
\* res, the slice set in the cache and the slice returned hold one AMI per
\* descriptor whose lookup succeeded, with that descriptor's requirements,
\* whether or not an image of the catalog has its id.
C9_FailedLookupSkipsDescriptor ==
  \A w \in Workers : Default(wk[w]) =>
    /\ wk[w].pc = "failed" => "ssm" \notin wk[w].ext \/ "describe" \in wk[w].ext
    /\ wk[w].pc \in {"describeDefault", "storeDefault"} => OnePerLookup(wk[w], wk[w].res)
    /\ wk[w].pc \in {"sort", "sorting", "done"} /\ ~wk[w].hit =>
         /\ ~wk[w].err
         /\ wk[w].amis = wk[w].stored
         /\ Cardinality(wk[w].resolved) = Cardinality(wk[w].ssmOk)
         /\ {x.Requirements : x \in wk[w].resolved}
              = {Descriptors(wk[w])[d].Requirements : d \in wk[w].ssmOk}
         /\ Len(arrays[wk[w].amis]) = Cardinality(wk[w].ssmOk)
         /\ ~wk[w].raced => OnePerLookup(wk[w], arrays[wk[w].amis])

\* C9 witness: of two descriptors one lookup failed; the call returned one
\* AMI, for an id that no image of the catalog has (no name backfilled).
C9_Witness ==
  \E w \in Workers :
    /\ wk[w].pc = "done" /\ Default(wk[w]) /\ ~wk[w].hit /\ ~wk[w].err
    /\ wk[w].ssmOk = {2}
    /\ Len(arrays[wk[w].amis]) = 1
    /\ arrays[wk[w].amis][1].AmiID = "ami-9"
    /\ arrays[wk[w].amis][1].Name = ""

\* Two calls under way together that both missed on the same key, both
\* returned.
BothMissed(w, v) ==
  /\ w # v
  /\ wk[w].pc = "done" /\ wk[v].pc = "done"
  /\ wk[w].key = wk[v].key
  /\ ~wk[w].hit /\ ~wk[v].hit
  /\ wk[w].overlap /\ wk[v].overlap

\* Each of the two calls resolved for itself and set the key, and the entry
\* is the slice of the later set.
BothWrote(w, v) ==
  /\ ~wk[w].err /\ ~wk[v].err
  /\ wk[w].wroteImages /\ wk[v].wroteImages
  /\ "describe" \in wk[w].ext /\ "describe" \in wk[v].ext
  /\ Default(wk[w]) => "ssm" \in wk[w].ext /\ "ssm" \in wk[v].ext
  /\ wk[w].stamp # wk[v].stamp
  /\ wk[w].key \in DOMAIN cache
  /\ cache[wk[w].key].amis = IF wk[w].stamp > wk[v].stamp THEN wk[w].stored ELSE wk[v].stored

\* C10 (as claimed): two calls under way together that both miss on a key
\* both resolve and set the key, the entry is the later set, and the two
\* return the same images.
C10_ConcurrentMissesAgree ==
  \A w, v \in Workers :
    BothMissed(w, v) => BothWrote(w, v) /\ wk[w].resolved = wk[v].resolved

\* What a call that does not fail resolves: a function of the catalog and of
\* its selector terms in their order (getAMIs), or of the version it read and
\* the lookups that succeeded (getDefaultAMIs).
Resolution(r) ==
  IF Len(r.terms) > 0
  THEN Values(DescribeAll(catalog, GetFilterAndOwnerSets(r.terms), EmptyImages))
  ELSE {[Name |-> IF SsmStore[Descriptors(r)[d].Query] \in DOMAIN catalog
                  THEN catalog[SsmStore[Descriptors(r)[d].Query]].Name ELSE "",
         AmiID |-> SsmStore[Descriptors(r)[d].Query],
         CreationDate |-> IF SsmStore[Descriptors(r)[d].Query] \in DOMAIN catalog
                          THEN catalog[SsmStore[Descriptors(r)[d].Query]].CreationDate ELSE "",
         Requirements |-> Descriptors(r)[d].Requirements] : d \in r.ssmOk}

\* C10 (amended): two calls under way together that both miss on a key both
\* resolve and set the key, and the entry is the later set.  Each returns
\* what its own resolution gives; the two return the same images when they
\* have the same selector terms in the same order, read the same version and
\* had the same lookups succeed.
C10_ConcurrentMissesBothWrite ==
  \A w, v \in Workers :
    BothMissed(w, v) =>
      /\ BothWrote(w, v)
      /\ wk[w].resolved = Resolution(wk[w])
      /\ (/\ wk[w].terms = wk[v].terms
          /\ wk[w].kubernetesVersion = wk[v].kubernetesVersion
          /\ wk[w].ssmOk = wk[v].ssmOk) => wk[w].resolved = wk[v].resolved

\* C10 witness: both workers missed on the family key, both resolved both
\* descriptors and set the key; the entry is the slice of the second set.
C10_Witness ==
  /\ BothMissed("w1", "w2")
  /\ Default(wk["w1"])
  /\ wk["w1"].ssmOk = {1, 2} /\ wk["w2"].ssmOk = {1, 2}
  /\ wk["w1"].stamp < wk["w2"].stamp
  /\ cache[wk["w1"].key].amis = wk["w2"].stored
  /\ wk["w1"].stored # wk["w2"].stored

\* Every adjacent pair (x, y) of the slice has x created after y, or at the
\* same instant with a name that is not less.
SortedNewestFirst(a) ==
  \A i \in 1..(Len(a) - 1) :
    LET tx == ParseTime(a[i].CreationDate)
        ty == ParseTime(a[i + 1].CreationDate)
    IN TimeBefore(ty, tx) \/ (tx = ty /\ ~StrLess(a[i].Name, a[i + 1].Name))

\* C11 (as claimed): the slice a call of Get returns holds the images it
\* resolved, every one once, and every adjacent pair of it is in the order
\* newest first, then greatest name first, an empty creation date being the
\* zero time.
C11_SortLaw ==
  \A w \in Workers :
    wk[w].pc = "done" /\ ~wk[w].err /\ ~wk[w].hit =>
      /\ Range(arrays[wk[w].amis]) = wk[w].resolved
      /\ Len(arrays[wk[w].amis]) = Cardinality(wk[w].resolved)
      /\ SortedNewestFirst(arrays[wk[w].amis])

\* The architecture field of the image, translated, is a supported one.
SupportedArch(img) == AWSToKubeArchitecture(img.Architecture) \in WellKnownArchitectures

\* The images of a page whose architecture is supported, in their order.
RECURSIVE SupportedOf(_)
SupportedOf(page) ==
  IF page = <<>> THEN <<>>
  ELSE (IF SupportedArch(Head(page)) THEN <<Head(page)>> ELSE <<>>) \o SupportedOf(Tail(page))

\* The page that a step of the describe call of getAMIs hands to the callback.
PageOf(w) ==
  LET in     == DescribeInput(Groups(w)[wk[w].gi])
      stream == Stream(w, in.Filters, in.Owners)
  IN SubSeq(stream, 1, Len(stream) - Len(wk'[w].todo))

\* C13: on the path of getAMIs, every page of every describe call leaves the
\* map as the same page without its images of an unsupported architecture
\* would (such an image is not put in the map and replaces nothing in it),
\* and the call goes on without an error; no AMI of the map, of the slice
\* stored or of the slice returned is an image of the catalog with an
\* unsupported architecture.
C13_UnsupportedArchDropped ==
  [][\A w \in Workers :
       /\ Moved(w) /\ wk[w].pc = "describe" /\ wk'[w].pc # "failed" =>
            /\ wk'[w].images = CallbackPage(wk[w].images, SupportedOf(PageOf(w)))
            /\ ~wk'[w].err /\ wk'[w].pc \in {"describe", "store"}
            /\ \A x \in Values(wk'[w].images) : SupportedArch(catalog[x.AmiID])
       /\ Moved(w) /\ wk[w].pc = "store" =>
            /\ \A i \in 1..Len(arrays'[wk'[w].amis]) :
                 SupportedArch(catalog[arrays'[wk'[w].amis][i].AmiID])
            /\ \A i \in 1..Len(arrays'[wk'[w].stored]) :
                 SupportedArch(catalog[arrays'[wk'[w].stored][i].AmiID])]_vars

\* C13 witness: both images of the catalog came in, ami-1 of an unsupported
\* architecture and ami-2 of a supported one; the call returned ami-2 alone,
\* without an error.
C13_Witness ==
  /\ wk["w1"].pc = "done" /\ ~wk["w1"].err
  /\ Arrived(catalog, wk["w1"].terms) = {catalog["ami-1"], catalog["ami-2"]}
  /\ ~SupportedArch(catalog["ami-1"])
  /\ SupportedArch(catalog["ami-2"])
  /\ Len(arrays[wk["w1"].amis]) = 1
  /\ arrays[wk["w1"].amis][1].AmiID = "ami-2"

\* C16 (as claimed): no two places of the slice that a call of Get resolved
\* and returns, on the path of getDefaultAMIs or of getAMIs, hold the same
\* AmiID.
C16_IdentityUnique ==
  \A w \in Workers :
    wk[w].pc \in {"sort", "sorting", "done"} /\ ~wk[w].err =>
      \A i, j \in 1..Len(arrays[wk[w].amis]) :
        i # j => arrays[wk[w].amis][i].AmiID # arrays[wk[w].amis][j].AmiID

\* The keys of the cache that name a family.
EntriesOf(c, family) == {k \in DOMAIN c : k.family = family}

\* C17: a call on the path of getDefaultAMIs looks up the family alone: when
\* the cache holds an entry of the family (not expired at the lookup), the
\* call hits it, whatever version the server reports and whatever version the
\* entry was resolved for, leaves the entry as it is and returns its slice,
\* and does not read the version or make another external call; when the
\* cache holds none, the call misses and resolves.
C17_DefaultKeyIsFamilyAlone ==
  [][\A w \in Workers :
       /\ Called(w) /\ Default(wk'[w]) =>
            /\ wk'[w].key = FamilyKey(wk'[w].family)
            /\ \A k \in EntriesOf(cache', wk'[w].family) :
                 /\ wk'[w].hit /\ wk'[w].pc = "sort"
                 /\ wk'[w].amis = cache'[k].amis
                 /\ cache'[k] = cache[k]
                 /\ arrays'[cache'[k].amis] = arrays[cache[k].amis]
            /\ EntriesOf(cache', wk'[w].family) = {} => ~wk'[w].hit /\ wk'[w].pc = "version"
       /\ Default(wk'[w]) /\ wk'[w].hit =>
            /\ wk'[w].ext = {} /\ wk'[w].kubernetesVersion = "" /\ wk'[w].wroteVersion = ""
            /\ ~wk'[w].wroteImages
            /\ Moved(w) => cache' = cache /\ kubernetesVersionCache' = kubernetesVersionCache]_vars

\* C17 witness: the server reports 1.28; a call resolved the family for 1.27
\* and set the entry (ami-1 and ami-2), and the call of the other worker hit
\* that entry and returned its slice, where 1.28 has ami-2 and ami-9.
C17_Witness ==
  /\ serverVersion = "1.28"
  /\ wk["w1"].pc = "done" /\ ~wk["w1"].hit /\ wk["w1"].kubernetesVersion = "1.27"
  /\ wk["w1"].ssmOk = {1, 2}
  /\ wk["w2"].pc = "done" /\ wk["w2"].hit /\ wk["w2"].family = wk["w1"].family
  /\ wk["w2"].amis = wk["w1"].stored
  /\ {arrays[wk["w2"].amis][i].AmiID : i \in 1..Len(arrays[wk["w2"].amis])} = {"ami-1", "ami-2"}
  /\ {SsmStore[d.Query] : d \in Range(DefaultAMIs(wk["w2"].family, serverVersion))} = {"ami-2", "ami-9"}

\* C18 (as claimed): for every image that the describe calls of a call on the
\* path of getAMIs handed to the callback, the requirements extracted have the
\* architecture requirement with the one value of the translated architecture
\* field, whatever the tags, and every other requirement is of a tag with a
\* well-known key, with the value of the tag.
C18_ArchitectureFromField ==
  \A w \in Workers : wk[w].pc = "store" =>
    \A img \in Arrived(catalog, wk[w].terms) :
      LET reqs == getRequirementsFromImage(img)
      IN /\ [Key |-> LabelArchStable, Values |-> {AWSToKubeArchitecture(img.Architecture)}] \in reqs
         /\ \A r \in reqs :
              r.Key # LabelArchStable =>
                /\ r.Key \in WellKnownLabels
                /\ \E t \in img.Tags : t[1] = r.Key /\ r.Values = {t[2]}

\* Some lookup of the call with record r failed.
SoftFailed(r) == r.ssmOk # 1..Len(Descriptors(r))

\* C19: a call on the path of getDefaultAMIs whose describe call succeeded
\* sets the family key to its slice res also when lookups failed (res then
\* holds the AMIs of the other descriptors, none when every lookup failed);
\* a later call for the family that finds that entry (not expired) returns its
\* slice and makes no lookup, no describe call and no write.
C19_SoftFailedResolutionCached ==
  [][\A w \in Workers :
       /\ Moved(w) /\ wk[w].pc = "storeDefault" /\ SoftFailed(wk[w]) =>
            /\ wk'[w].pc = "sort" /\ ~wk'[w].err
            /\ wk[w].key \in DOMAIN cache'
            /\ cache'[wk[w].key].amis = wk'[w].stored
            /\ wk'[w].amis = wk'[w].stored
            /\ arrays'[wk'[w].stored] = wk[w].res
            /\ Len(wk[w].res) = Cardinality(wk[w].ssmOk)
       /\ \A v \in Workers \ {w} :
            /\ Called(w) /\ Default(wk'[w])
            /\ SoftFailed(wk[v]) /\ wk[v].stored # 0
            /\ wk[v].key \in DOMAIN cache' /\ cache'[wk[v].key].amis = wk[v].stored
            /\ wk'[w].family = wk[v].family
            => /\ wk'[w].hit /\ wk'[w].pc = "sort"
               /\ wk'[w].amis = wk[v].stored
               /\ wk'[w].ext = {} /\ wk'[w].ssmOk = {}
               /\ cache' = cache
       /\ Default(wk[w]) /\ wk[w].hit /\ Moved(w) =>
            /\ wk'[w].ext = wk[w].ext /\ wk'[w].ssmOk = wk[w].ssmOk
            /\ cache' = cache \/ calls' = calls + 1]_vars

\* C19 witness: every lookup of a call failed, its describe call succeeded
\* and it set the family key to the empty slice; the other worker's call then
\* hit that entry and returned the empty slice with no external call.
C19_Witness ==
  /\ wk["w1"].pc = "done" /\ Default(wk["w1"]) /\ ~wk["w1"].hit /\ ~wk["w1"].err
  /\ wk["w1"].ssmOk = {} /\ "ssm" \in wk["w1"].ext /\ "describe" \in wk["w1"].ext
  /\ wk["w1"].key \in DOMAIN cache /\ cache[wk["w1"].key].amis = wk["w1"].stored
  /\ wk["w2"].pc = "done" /\ wk["w2"].hit /\ wk["w2"].ext = {}
  /\ wk["w2"].amis = wk["w1"].stored
  /\ arrays[wk["w2"].amis] = <<>>

\* C20 (as claimed): a call on the path of getDefaultAMIs that has made its
\* describe call had at least one lookup succeed: the image-id filter of the
\* call has a value.
C20_DescribeByIdNeverEmpty ==
  \A w \in Workers :
    /\ Default(wk[w]) /\ "describe" \in wk[w].ext => wk[w].ssmOk # {}
    /\ wk[w].pc = "describeDefault" /\ wk[w].sent =>
         \A f \in Range(DefaultDescribeFilters(wk[w].res)) : Len(f.Values) > 0

\* The selector terms without an ID, in their order: the i-th has the i-th
\* FiltersAndOwners.
RECURSIVE AttributeTerms(_)
AttributeTerms(terms) ==
  IF terms = <<>> THEN <<>>
  ELSE (IF Head(terms).ID = "" THEN <<Head(terms)>> ELSE <<>>) \o AttributeTerms(Tail(terms))

OwnerOnly(term) == term.ID = "" /\ term.Name = "" /\ term.Tags = {} /\ term.Owner # ""

\* C14: the input of every describe call of a Get call has nil filters or a
\* list of at least one filter, on the path of getAMIs (for every
\* FiltersAndOwners) and on the path of getDefaultAMIs; for a selector term
\* with an owner and nothing else it has nil filters and that owner alone as
\* owners.
C14_FiltersNilOrNonEmpty ==
  \A w \in Workers :
    /\ wk[w].pc = "describe" =>
         LET in    == DescribeInput(Groups(w)[wk[w].gi])
             terms == AttributeTerms(wk[w].terms)
         IN /\ in.NilFilters \/ Len(in.Filters) > 0
            /\ in.NilFilters => in.Filters = <<>>
            /\ wk[w].gi <= Len(terms) /\ OwnerOnly(terms[wk[w].gi]) =>
                 in.NilFilters /\ in.Owners = <<terms[wk[w].gi].Owner>>
    /\ wk[w].pc = "describeDefault" => Len(DefaultDescribeFilters(wk[w].res)) > 0

\* C14 witness: a call with the one selector term {owner: amazon} made its
\* describe call with nil filters and returned the image amazon owns.
C14_Witness ==
  /\ wk["w1"].pc = "done"
  /\ wk["w1"].terms = <<[NoTerm EXCEPT !.Owner = "amazon"]>>
  /\ "describe" \in wk["w1"].ext
  /\ DescribeInput(GetFilterAndOwnerSets(wk["w1"].terms)[1]).NilFilters
  /\ Len(arrays[wk["w1"].amis]) = 1
  /\ arrays[wk["w1"].amis][1].AmiID = "ami-2"

\* The ids of the selector terms that have one, in their order.
RECURSIVE TermIds(_)
TermIds(terms) ==
  IF terms = <<>> THEN <<>>
  ELSE (IF Head(terms).ID # "" THEN <<Head(terms).ID>> ELSE <<>>) \o TermIds(Tail(terms))

\* The filters that a selector term without an id is to give.
ExpectedFilters(term) ==
  (IF term.Name # "" THEN {[Name |-> "name", Values |-> <<term.Name>>]} ELSE {})
  \cup {CASE t[2] = "*"   -> [Name |-> "tag-key", Values |-> <<"team">>]
           [] t[2] = "x,y" -> [Name |-> "tag:team", Values |-> <<"x", "y">>]
           [] OTHER        -> [Name |-> "tag:team", Values |-> <<t[2]>>] : t \in term.Tags}

\* C15: the FiltersAndOwners of a call on the path of getAMIs are one per
\* selector term without an id, in the order of the terms, each with the
\* term's owner (self and amazon when it has none), a name filter when the
\* term has a name and one filter per tag (tag-key for the value "*", else
\* tag:<key> on the values split at the commas), and then, when a term has an
\* id and only then, one last FiltersAndOwners with no owners and the one
\* filter image-id on the ids of all those terms; the call makes its describe
\* calls for these.
C15_OneGroupPerTermIdsLast ==
  \A w \in Workers : Custom(w) =>
    LET terms == wk[w].terms
        attr  == AttributeTerms(terms)
        ids   == TermIds(terms)
        G     == Groups(w)
    IN /\ Len(G) = Len(attr) + (IF ids # <<>> THEN 1 ELSE 0)
       /\ \A i \in 1..Len(attr) :
            /\ G[i].Owners = IF attr[i].Owner # "" THEN <<attr[i].Owner>> ELSE <<"self", "amazon">>
            /\ Range(G[i].Filters) = ExpectedFilters(attr[i])
            /\ Len(G[i].Filters) = Cardinality(ExpectedFilters(attr[i]))
       /\ ids # <<>> =>
            G[Len(G)] = [Filters |-> <<[Name |-> "image-id", Values |-> ids]>>, Owners |-> <<>>]
       /\ wk[w].pc = "describe" => wk[w].gi \in 1..Len(G)

\* C15 witness: a call with a term with an id and then a term with a tag of
\* two values made the describe call of the tag first and the describe call
\* of the id last, and returned.
C15_Witness ==
  /\ wk["w1"].pc = "done"
  /\ wk["w1"].terms = <<[NoTerm EXCEPT !.ID = "ami-1"], [NoTerm EXCEPT !.Tags = {<<"team", "x,y">>}]>>
  /\ Groups("w1")[1].Owners = <<"self", "amazon">>
  /\ Groups("w1")[1].Filters = <<[Name |-> "tag:team", Values |-> <<"x", "y">>]>>
  /\ Groups("w1")[2].Filters = <<[Name |-> "image-id", Values |-> <<"ami-1">>]>>
  /\ Len(arrays[wk["w1"].amis]) = 2

\* The places <<id, p>> of an instance type in the result of MapToInstanceTypes.
PlacesOf(amiIDs, it) ==
  UNION {{<<id, p>> : p \in {q \in 1..Len(amiIDs[id]) : amiIDs[id][q] = it}} : id \in DOMAIN amiIDs}

\* The places of the AMIs of a slice that an instance type is compatible with.
CompatiblePlaces(a, it) == {i \in 1..Len(a) : Compatible(it.Requirements, a[i].Requirements)}

Min(S) == CHOOSE m \in S : \A x \in S : m <= x

IndexIn(seq, x) == CHOOSE i \in 1..Len(seq) : seq[i] = x

\* C12: in the result of MapToInstanceTypes an instance type that no AMI of
\* the slice is compatible with is nowhere, and every other instance type is
\* at exactly one place, under the id of the first AMI of the slice that it is
\* compatible with; the result holds instance types of the list only, no
\* empty entry, and the instance types under one id are in the order of the
\* list.
C12_FirstCompatibleImageOnly ==
  \A w \in Workers : wk[w].pc = "mapped" =>
    LET a   == arrays[wk[w].amis]
        its == wk[w].instanceTypes
        out == wk[w].amiIDs
    IN /\ \A it \in Range(its) :
            IF CompatiblePlaces(a, it) = {} THEN PlacesOf(out, it) = {}
            ELSE /\ Cardinality(PlacesOf(out, it)) = 1
                 /\ \A pl \in PlacesOf(out, it) : pl[1] = a[Min(CompatiblePlaces(a, it))].AmiID
       /\ \A id \in DOMAIN out :
            /\ Len(out[id]) > 0
            /\ Range(out[id]) \subseteq Range(its)
            /\ \A p, q \in 1..Len(out[id]) :
                 p < q => IndexIn(its, out[id][p]) < IndexIn(its, out[id][q])

\* C12 witness: the slice is sorted, ami-2 (newer) before ami-1, an instance
\* type of the call is compatible with both and is under ami-2 only; another
\* one is compatible with no AMI and is nowhere.
C12_Witness ==
  /\ wk["w1"].pc = "mapped"
  /\ LET a == arrays[wk["w1"].amis]
     IN /\ Len(a) = 2 /\ a[1].AmiID = "ami-2" /\ a[2].AmiID = "ami-1"
        /\ Sort(a) = a
        /\ Len(wk["w1"].instanceTypes) = 2
        /\ CompatiblePlaces(a, wk["w1"].instanceTypes[1]) = {}
        /\ CompatiblePlaces(a, wk["w1"].instanceTypes[2]) = {1, 2}
        /\ DOMAIN wk["w1"].amiIDs = {"ami-2"}
        /\ wk["w1"].amiIDs["ami-2"] = <<wk["w1"].instanceTypes[2]>>

====
